---- MODULE Spec2Model ----
(***************************************************************************)
(* Model of gcp-to-fleet-sync.py: one reconcile-once run after another of  *)
(* the script against a Fleet server, a GCP project inventory and the      *)
(* local policy.db revision store.                                         *)
(***************************************************************************)
EXTENDS Integers, Sequences, FiniteSets, TLC

(* ---------------------------- bounds ----------------------------------- *)
MaxActive == 2      \* longest active-project list returned by the inventory
MaxInitPP == 1      \* package policies on the agent policy before the first run
MaxPP == 2          \* most package policies the agent policy ever holds
MaxRev == 2         \* template revisions range over 1..MaxRev
MaxMissing == 1     \* most required environment variables missing at once

(* ------------------------- program constants --------------------------- *)
HttpOk == 200
HttpError == 500
StatusCodes == {HttpOk, HttpError}
ExitConfigError == (0 - 1) % 256        \* exit(-1) seen as a process status
ExitOk == 0

Keys == {"P1", "P2"}                    \* GCP project ids
RequiredEnv == {"ELASTIC_API_KEY", "KIBANA_ENDPOINT", "MASTER_AGENT_POLICY_NAME",
                "GCP_QUOTA_PROJECT", "GCP_AGENT_TAG"}
StripKeys == {"id", "version", "revision", "created_at", "created_by",
              "updated_at", "updated_by"}
\* server-managed fields a fetched master integration may carry
TemplateFieldSets == {StripKeys, {"id", "revision", "updated_at"}, {}}
GcpPackage == "gcp"
OtherPackage == "nginx"
AgentPolicyId == "agent-policy"

VARIABLES
    pc,                       \* position of the current process in main()
    exit_status,              \* process exit status, -1 while running
    os_environ,               \* required variables the process found set
    gcp_projects_to_ignore,   \* global list built by check_configuration
    active_gcp_projects,      \* list built by main from the inventory
    agent_gcp_projects,       \* ordered dict key -> package policy id
    agent_policy_id,
    master_agent_policy,      \* global memo of the master agent policy
    new_gcp_projects,         \* local of create_integrations_by_gcp_project_id
    deleted_gcp_projects,     \* result of delete_integrations_by_gcp_project_id
    remaining_gcp_projects,   \* local of sync_master_integration
    idx,                      \* position of the running for loop
    rows,                     \* rows read by is_master_policy_updated
    master_policy_revision,   \* local of sync_master_integration
    master_agent_policy_updated,
    policy_db,                \* rows of table policy in policy.db
    fleet_package_policies,   \* package policies of the agent policy (server)
    fleet_master,             \* master agent policy on the server
    reads,                    \* read requests issued by this process
    fetches,                  \* GETs of the master policy by this process
    posts, deletes, puts      \* write requests issued by this process

vars == <<pc, exit_status, os_environ, gcp_projects_to_ignore, active_gcp_projects,
          agent_gcp_projects, agent_policy_id, master_agent_policy, new_gcp_projects,
          deleted_gcp_projects, remaining_gcp_projects, idx, rows,
          master_policy_revision, master_agent_policy_updated, policy_db,
          fleet_package_policies, fleet_master, reads, fetches, posts, deletes, puts>>

(* ----------------------------- helpers --------------------------------- *)
Range(s) == {s[i] : i \in 1..Len(s)}

SeqsUpTo(S, n) == UNION {[1..m -> S] : m \in 0..n}

\* get_list_diffs returning the primary list as it is
get_list_diffs_unfiltered(primary_list, secondary_list) == primary_list

\* get_list_diffs with the membership test inverted
get_list_diffs_inverted(primary_list, secondary_list) ==
    SelectSeq(primary_list, LAMBDA x : x \in Range(secondary_list))

\* get_list_diffs: items of the primary list that are not in the secondary one
get_list_diffs(primary_list, secondary_list) ==
    SelectSeq(primary_list, LAMBDA x : x \notin Range(secondary_list))

\* [*agent_gcp_projects]: the keys of the dict in insertion order
DictKeys(d) == [i \in 1..Len(d) |-> d[i].key]

\* agent_gcp_projects[project]
DictGet(d, k) == d[CHOOSE i \in 1..Len(d) : d[i].key = k].id

\* the dict built by inspect_agent_policy: a GCP package policy is recorded,
\* first occurrence of its project only, inside the branch of an enabled input
inspect_agent_policy(package_policies) ==
    LET F[i \in 0..Len(package_policies)] ==
            IF i = 0 THEN <<>>
            ELSE LET pp == package_policies[i]
                     d == F[i - 1]
                 IN  IF /\ pp.pkg = GcpPackage
                        /\ pp.enabled
                        /\ pp.key \notin Range(DictKeys(d))
                     THEN Append(d, [key |-> pp.key, id |-> pp.id])
                     ELSE d
    IN  F[Len(package_policies)]

\* prep_integration_policy with "revision" missing from its list of keys
prep_integration_policy_keeps_revision(integration_policy) ==
    [integration_policy EXCEPT !.fields = @ \ (StripKeys \ {"revision"})]

\* prep_integration_policy: pops the server-managed keys
prep_integration_policy(integration_policy) ==
    [integration_policy EXCEPT !.fields = @ \ StripKeys]

\* the substitution writing the project id only into a body that still
\* carries the master integration's own project id
substitute_and_prep_stale(gcp_project_id, policy_id, integration_policy) ==
    prep_integration_policy(
        [integration_policy EXCEPT !.policy_id = policy_id,
                                   !.name = gcp_project_id,
                                   !.project_id = IF @ = "master-project"
                                                  THEN gcp_project_id ELSE @])

\* the body create_integration_policy / update_integration_policy send
\* (and leave behind in the memoized master policy, which they edit in place)
substitute_and_prep(gcp_project_id, policy_id, integration_policy) ==
    prep_integration_policy([integration_policy EXCEPT !.policy_id = policy_id,
                                                       !.name = gcp_project_id,
                                                       !.project_id = gcp_project_id])

\* the pops of prep_integration_policy reaching the agent policy's revision
edit_in_place_whole(mp, body) == [mp EXCEPT !.pp = body, !.revision = 0]

\* master_integration_policy is mp['items'][0]['package_policies'][0] itself:
\* what a create or update writes into it stays in the memoized master policy
edit_in_place(mp, body) == [mp EXCEPT !.pp = body]

\* check_http_status_code raising on a status other than 200
check_http_status_code_raises(status_code) ==
    IF status_code = HttpOk THEN TRUE ELSE FALSE

\* check_http_status_code: TRUE when the caller goes on (it only prints)
check_http_status_code(status_code) ==
    IF status_code = HttpOk THEN TRUE ELSE TRUE

\* values of the global master_agent_policy
EmptyPolicy == [state |-> "empty", revision |-> 0,
                pp |-> [policy_id |-> "", name |-> "", project_id |-> "",
                        fields |-> {}, enabled |-> FALSE]]
NonePolicy == [EmptyPolicy EXCEPT !.state = "none"]

\* response of get_policy_by_query for the master agent policy (status 200)
MasterResponse(master) ==
    [state |-> "fetched", revision |-> master.revision,
     pp |-> [policy_id |-> "master-policy", name |-> "master-gcp",
             project_id |-> "master-project",
             fields |-> master.fields, enabled |-> master.enabled]]

\* get_master_policy without the test of the memo
NeedsFetch_always(memo) == TRUE

\* get_master_policy: queries the server only while the memo is falsy
NeedsFetch(memo) == memo.state # "fetched"
get_master_policy(memo, response) == IF NeedsFetch(memo) THEN response ELSE memo

\* get_master_policy_revision
get_master_policy_revision(mp) == mp.revision

\* is_master_policy_updated reporting a change on the bootstrap run
is_master_policy_updated_on_bootstrap(db, current_revision) ==
    IF db = <<>> THEN [updated |-> TRUE, db |-> <<current_revision>>]
    ELSE IF db[1] = current_revision THEN [updated |-> FALSE, db |-> db]
    ELSE [updated |-> TRUE, db |-> db]

\* is_master_policy_updated reporting a change only for a higher revision
is_master_policy_updated_if_higher(db, current_revision) ==
    IF db = <<>> THEN [updated |-> FALSE, db |-> <<current_revision>>]
    ELSE IF db[1] >= current_revision THEN [updated |-> FALSE, db |-> db]
    ELSE [updated |-> TRUE, db |-> db]

\* is_master_policy_updated reporting a change whenever a revision is stored
is_master_policy_updated_always(db, current_revision) ==
    IF db = <<>> THEN [updated |-> FALSE, db |-> <<current_revision>>]
    ELSE [updated |-> TRUE, db |-> db]

\* is_master_policy_updated: the answer and the table it leaves behind
is_master_policy_updated(db, current_revision) ==
    IF db = <<>> THEN [updated |-> FALSE, db |-> <<current_revision>>]
    ELSE IF db[1] = current_revision THEN [updated |-> FALSE, db |-> db]
    ELSE [updated |-> TRUE, db |-> db]

\* the UPDATE of line 179 left out
update_revision_skipped(db, revision) == db

\* UPDATE policy SET revision = ?
update_revision(db, revision) == [i \in 1..Len(db) |-> revision]

\* the try block of check_configuration without the lookup of GCP_AGENT_TAG
configuration_complete_but_tag(env) ==
    \A name \in RequiredEnv \ {"GCP_AGENT_TAG"} : name \in env

\* the try block of check_configuration: every required variable is looked up
configuration_complete(env) == \A name \in RequiredEnv : name \in env

\* the ignore list check_configuration builds from GCP_PROJECTS_TO_IGNORE
Unset == "<unset>"
parse_projects_to_ignore(value) ==
    IF value = Unset THEN <<>>
    ELSE IF value = "" THEN <<>> ELSE <<value>>

(* ------------------------- the Fleet server ---------------------------- *)
\* The server gives a created package policy an id that no package policy of
\* the agent policy carries, and answers 200 to a create only while the agent
\* policy holds fewer than MaxPP package policies.
UsedIds(pps) == {pps[i].id : i \in 1..Len(pps)}
FreshId(pps) == CHOOSE n \in 1..(Len(pps) + 1) :
                    /\ n \notin UsedIds(pps)
                    /\ \A m \in 1..(n - 1) : m \in UsedIds(pps)

ServerCreate(pps, body) ==
    Append(pps, [id |-> FreshId(pps), pkg |-> GcpPackage,
                 key |-> body.project_id, enabled |-> body.enabled])
ServerDelete(pps, id) == SelectSeq(pps, LAMBDA pp : pp.id # id)
ServerUpdate(pps, id, body) ==
    [i \in 1..Len(pps) |->
        IF pps[i].id = id
        THEN [pps[i] EXCEPT !.key = body.project_id, !.enabled = body.enabled]
        ELSE pps[i]]

\* what the agent policy may hold before the first run: GCP integrations
\* of some project, with or without an enabled input, and other integrations
InitialKinds ==
    ({GcpPackage} \X Keys \X BOOLEAN) \cup {<<OtherPackage, "", TRUE>>}
InitialPackagePolicies ==
    {[i \in 1..Len(s) |-> [id |-> i, pkg |-> s[i][1], key |-> s[i][2], enabled |-> s[i][3]]] :
        s \in SeqsUpTo(InitialKinds, MaxInitPP)}

(* ------------------------------ Init ----------------------------------- *)
Terminated == {"idle", "done", "exited", "crashed"}

Init ==
    /\ pc = "idle"
    /\ exit_status = 0 - 1
    /\ os_environ = {}
    /\ gcp_projects_to_ignore = <<>>
    /\ active_gcp_projects = <<>>
    /\ agent_gcp_projects = <<>>
    /\ agent_policy_id = ""
    /\ master_agent_policy = EmptyPolicy
    /\ new_gcp_projects = <<>>
    /\ deleted_gcp_projects = <<>>
    /\ remaining_gcp_projects = <<>>
    /\ idx = 1
    /\ rows = <<>>
    /\ master_policy_revision = 0
    /\ master_agent_policy_updated = FALSE
    /\ policy_db = <<>>
    /\ fleet_package_policies \in InitialPackagePolicies
    /\ fleet_master \in [revision : 1..MaxRev, fields : TemplateFieldSets, enabled : BOOLEAN]
    /\ reads = {}
    /\ fetches = 0
    /\ posts = <<>>
    /\ deletes = <<>>
    /\ puts = <<>>

(* ----------------------------- actions --------------------------------- *)
\* a new process starts: module globals at their initial values (lines 16-32)
StartRun ==
    /\ pc \in Terminated
    /\ os_environ' = {}
    /\ pc' = "check"
    /\ exit_status' = 0 - 1
    /\ gcp_projects_to_ignore' = <<>>
    /\ active_gcp_projects' = <<>>
    /\ agent_gcp_projects' = <<>>
    /\ agent_policy_id' = ""
    /\ master_agent_policy' = EmptyPolicy
    /\ new_gcp_projects' = <<>>
    /\ deleted_gcp_projects' = <<>>
    /\ remaining_gcp_projects' = <<>>
    /\ idx' = 1
    /\ rows' = <<>>
    /\ master_policy_revision' = 0
    /\ master_agent_policy_updated' = FALSE
    /\ reads' = {}
    /\ fetches' = 0
    /\ posts' = <<>>
    /\ deletes' = <<>>
    /\ puts' = <<>>
    /\ UNCHANGED <<policy_db, fleet_package_policies, fleet_master>>

\* the operator edits the master integration between two runs
EditTemplate ==
    /\ pc \in Terminated
    /\ \E r \in 1..MaxRev :
          /\ r # fleet_master.revision
          /\ fleet_master' = [fleet_master EXCEPT !.revision = r]
    /\ UNCHANGED <<pc, exit_status, os_environ, gcp_projects_to_ignore,
                   active_gcp_projects, agent_gcp_projects, agent_policy_id,
                   master_agent_policy, new_gcp_projects, deleted_gcp_projects,
                   remaining_gcp_projects, idx, rows, master_policy_revision,
                   master_agent_policy_updated, policy_db, fleet_package_policies,
                   reads, fetches, posts, deletes, puts>>

\* load_dotenv and check_configuration: the environment is read here
CheckConfiguration ==
    /\ pc = "check"
    /\ \E env \in SUBSET RequiredEnv :
          /\ Cardinality(RequiredEnv \ env) <= MaxMissing
          /\ os_environ' = env
          /\ IF ~configuration_complete(env)
             THEN /\ pc' = "exited"
                  /\ exit_status' = ExitConfigError
                  /\ UNCHANGED gcp_projects_to_ignore
             ELSE /\ \E value \in {Unset, ""} \cup Keys :
                        gcp_projects_to_ignore' = parse_projects_to_ignore(value)
                  /\ pc' = "list"
                  /\ UNCHANGED exit_status
    /\ UNCHANGED <<active_gcp_projects, agent_gcp_projects, agent_policy_id,
                   master_agent_policy, new_gcp_projects, deleted_gcp_projects,
                   remaining_gcp_projects, idx, rows, master_policy_revision,
                   master_agent_policy_updated, policy_db, fleet_package_policies,
                   fleet_master, reads, fetches, posts, deletes, puts>>

\* get_active_gcp_projects and the loop of main that collects the project ids
GetActiveGcpProjects ==
    /\ pc = "list"
    /\ \E projects \in SeqsUpTo(Keys, MaxActive) : active_gcp_projects' = projects
    /\ reads' = reads \cup {"inventory"}
    /\ pc' = "inspect"
    /\ UNCHANGED <<exit_status, os_environ, gcp_projects_to_ignore, agent_gcp_projects,
                   agent_policy_id, master_agent_policy, new_gcp_projects,
                   deleted_gcp_projects, remaining_gcp_projects, idx, rows,
                   master_policy_revision, master_agent_policy_updated, policy_db,
                   fleet_package_policies, fleet_master, fetches, posts, deletes, puts>>

\* inspect_agent_policy, an agent carries the tag
InspectAgentPolicy ==
    /\ pc = "inspect"
    /\ reads' = reads \cup {"agents", "agent_policy"}
    /\ agent_gcp_projects' = inspect_agent_policy(fleet_package_policies)
    /\ agent_policy_id' = AgentPolicyId
    /\ pc' = "new"
    /\ UNCHANGED <<exit_status, os_environ, gcp_projects_to_ignore, active_gcp_projects,
                   master_agent_policy, new_gcp_projects, deleted_gcp_projects,
                   remaining_gcp_projects, idx, rows, master_policy_revision,
                   master_agent_policy_updated, policy_db, fleet_package_policies,
                   fleet_master, fetches, posts, deletes, puts>>

\* inspect_agent_policy going on with no agent and no package policy
InspectAgentPolicyNotFound_goes_on ==
    /\ pc = "inspect"
    /\ reads' = reads \cup {"agents"}
    /\ agent_gcp_projects' = <<>>
    /\ agent_policy_id' = ""
    /\ pc' = "new"
    /\ UNCHANGED <<exit_status, os_environ, gcp_projects_to_ignore, active_gcp_projects,
                   master_agent_policy, new_gcp_projects, deleted_gcp_projects,
                   remaining_gcp_projects, idx, rows, master_policy_revision,
                   master_agent_policy_updated, policy_db, fleet_package_policies,
                   fleet_master, fetches, posts, deletes, puts>>

\* inspect_agent_policy, no agent carries the tag: agents['list'][0] raises
InspectAgentPolicyNotFound ==
    /\ pc = "inspect"
    /\ reads' = reads \cup {"agents"}
    /\ pc' = "crashed"
    /\ exit_status' = 1
    /\ UNCHANGED <<os_environ, gcp_projects_to_ignore, active_gcp_projects,
                   agent_gcp_projects, agent_policy_id, master_agent_policy,
                   new_gcp_projects, deleted_gcp_projects, remaining_gcp_projects, idx,
                   rows, master_policy_revision, master_agent_policy_updated, policy_db,
                   fleet_package_policies, fleet_master, fetches, posts, deletes, puts>>

\* create_integrations_by_gcp_project_id, lines 202-204: the projects to create
CreateIntegrationsByGcpProjectId ==
    /\ pc = "new"
    /\ new_gcp_projects' = get_list_diffs(active_gcp_projects, DictKeys(agent_gcp_projects))
    /\ idx' = 1
    /\ pc' = "create"
    /\ UNCHANGED <<exit_status, os_environ, gcp_projects_to_ignore, active_gcp_projects,
                   agent_gcp_projects, agent_policy_id, master_agent_policy,
                   deleted_gcp_projects, remaining_gcp_projects, rows,
                   master_policy_revision, master_agent_policy_updated, policy_db,
                   fleet_package_policies, fleet_master, reads, fetches, posts,
                   deletes, puts>>

\* one turn of the loop of lines 207-209: deploy_integration and
\* create_integration_policy for new_gcp_projects[idx]
DeployIntegration ==
    /\ pc = "create"
    /\ idx <= Len(new_gcp_projects)
    /\ LET project == new_gcp_projects[idx]
           mp == get_master_policy(master_agent_policy, MasterResponse(fleet_master))
           body == substitute_and_prep(project, agent_policy_id, mp.pp)
       IN  \E status \in StatusCodes :
              /\ status = HttpOk => Len(fleet_package_policies) < MaxPP
              /\ fetches' = IF NeedsFetch(master_agent_policy) THEN fetches + 1 ELSE fetches
              /\ reads' = IF NeedsFetch(master_agent_policy)
                          THEN reads \cup {"master_policy"} ELSE reads
              /\ master_agent_policy' = edit_in_place(mp, body)
              /\ posts' = Append(posts, [key |-> project, status |-> status, body |-> body])
              /\ fleet_package_policies' =
                    IF status = HttpOk THEN ServerCreate(fleet_package_policies, body)
                    ELSE fleet_package_policies
              /\ IF check_http_status_code(status)
                 THEN pc' = pc /\ exit_status' = exit_status
                 ELSE pc' = "crashed" /\ exit_status' = 1
    /\ idx' = idx + 1
    /\ UNCHANGED <<os_environ, gcp_projects_to_ignore, active_gcp_projects,
                   agent_gcp_projects, agent_policy_id, new_gcp_projects,
                   deleted_gcp_projects, remaining_gcp_projects, rows,
                   master_policy_revision, master_agent_policy_updated, policy_db,
                   fleet_master, deletes, puts>>

\* the failed query passed over: the loop goes on and asks again
GetMasterPolicyFails_goes_on ==
    /\ \/ pc = "create" /\ idx <= Len(new_gcp_projects)
       \/ pc = "delete" /\ idx > Len(deleted_gcp_projects)
    /\ NeedsFetch(master_agent_policy)
    /\ master_agent_policy' = get_master_policy(master_agent_policy, NonePolicy)
    /\ fetches' = fetches + 1
    /\ reads' = reads \cup {"master_policy"}
    /\ UNCHANGED <<pc, exit_status, os_environ, gcp_projects_to_ignore,
                   active_gcp_projects, agent_gcp_projects, agent_policy_id,
                   new_gcp_projects, deleted_gcp_projects, remaining_gcp_projects, idx,
                   rows, master_policy_revision, master_agent_policy_updated, policy_db,
                   fleet_package_policies, fleet_master, posts, deletes, puts>>

\* get_master_policy when the query for the master policy is not answered
\* with status 200: get_policy_by_query returns None and mp['items'] raises
GetMasterPolicyFails ==
    /\ \/ pc = "create" /\ idx <= Len(new_gcp_projects)
       \/ pc = "delete" /\ idx > Len(deleted_gcp_projects)
    /\ NeedsFetch(master_agent_policy)
    /\ master_agent_policy' = get_master_policy(master_agent_policy, NonePolicy)
    /\ fetches' = fetches + 1
    /\ reads' = reads \cup {"master_policy"}
    /\ pc' = "crashed"
    /\ exit_status' = 1
    /\ UNCHANGED <<os_environ, gcp_projects_to_ignore, active_gcp_projects,
                   agent_gcp_projects, agent_policy_id, new_gcp_projects,
                   deleted_gcp_projects, remaining_gcp_projects, idx, rows,
                   master_policy_revision, master_agent_policy_updated, policy_db,
                   fleet_package_policies, fleet_master, posts, deletes, puts>>

\* delete_integrations_by_gcp_project_id, lines 184-191: the projects to delete
DeleteIntegrationsByGcpProjectId ==
    /\ pc = "create"
    /\ idx > Len(new_gcp_projects)
    /\ deleted_gcp_projects' =
          get_list_diffs(get_list_diffs(DictKeys(agent_gcp_projects), active_gcp_projects),
                         gcp_projects_to_ignore)
    /\ idx' = 1
    /\ pc' = "delete"
    /\ UNCHANGED <<exit_status, os_environ, gcp_projects_to_ignore, active_gcp_projects,
                   agent_gcp_projects, agent_policy_id, master_agent_policy,
                   new_gcp_projects, remaining_gcp_projects, rows,
                   master_policy_revision, master_agent_policy_updated, policy_db,
                   fleet_package_policies, fleet_master, reads, fetches, posts,
                   deletes, puts>>

\* one turn of the loop of lines 194-196: delete_integration_policy
DeleteIntegrationPolicy ==
    /\ pc = "delete"
    /\ idx <= Len(deleted_gcp_projects)
    /\ LET project == deleted_gcp_projects[idx]
           package_policy_id == DictGet(agent_gcp_projects, project)
       IN  \E status \in StatusCodes :
              /\ deletes' = Append(deletes, [key |-> project, id |-> package_policy_id,
                                             status |-> status])
              /\ fleet_package_policies' =
                    IF status = HttpOk
                    THEN ServerDelete(fleet_package_policies, package_policy_id)
                    ELSE fleet_package_policies
              /\ IF check_http_status_code(status)
                 THEN pc' = pc /\ exit_status' = exit_status
                 ELSE pc' = "crashed" /\ exit_status' = 1
    /\ idx' = idx + 1
    /\ UNCHANGED <<os_environ, gcp_projects_to_ignore, active_gcp_projects,
                   agent_gcp_projects, agent_policy_id, master_agent_policy,
                   new_gcp_projects, deleted_gcp_projects, remaining_gcp_projects, rows,
                   master_policy_revision, master_agent_policy_updated, policy_db,
                   fleet_master, reads, fetches, posts, puts>>

\* sync_master_integration, lines 160-171: the revision check and the
\* projects to update
SyncMasterIntegration ==
    /\ pc = "delete"
    /\ idx > Len(deleted_gcp_projects)
    /\ LET mp == get_master_policy(master_agent_policy, MasterResponse(fleet_master))
           revision == get_master_policy_revision(mp)
           answer == is_master_policy_updated(policy_db, revision)
       IN  /\ fetches' = IF NeedsFetch(master_agent_policy) THEN fetches + 1 ELSE fetches
           /\ reads' = IF NeedsFetch(master_agent_policy)
                       THEN reads \cup {"master_policy"} ELSE reads
           /\ master_agent_policy' = mp
           /\ master_policy_revision' = revision
           /\ rows' = policy_db
           /\ policy_db' = answer.db
           /\ master_agent_policy_updated' = answer.updated
           /\ remaining_gcp_projects' =
                 IF answer.updated
                 THEN get_list_diffs(get_list_diffs(DictKeys(agent_gcp_projects),
                                                    deleted_gcp_projects),
                                     gcp_projects_to_ignore)
                 ELSE <<>>
    /\ idx' = 1
    /\ pc' = "update"
    /\ UNCHANGED <<exit_status, os_environ, gcp_projects_to_ignore, active_gcp_projects,
                   agent_gcp_projects, agent_policy_id, new_gcp_projects,
                   deleted_gcp_projects, fleet_package_policies, fleet_master, posts,
                   deletes, puts>>

\* one turn of the loop of lines 172-175: update_integration_policy
UpdateIntegrationPolicy ==
    /\ pc = "update"
    /\ idx <= Len(remaining_gcp_projects)
    /\ LET project == remaining_gcp_projects[idx]
           package_policy_id == DictGet(agent_gcp_projects, project)
           mp == get_master_policy(master_agent_policy, MasterResponse(fleet_master))
           body == substitute_and_prep(project, agent_policy_id, mp.pp)
       IN  \E status \in StatusCodes :
              /\ fetches' = IF NeedsFetch(master_agent_policy) THEN fetches + 1 ELSE fetches
              /\ master_agent_policy' = edit_in_place(mp, body)
              /\ puts' = Append(puts, [key |-> project, id |-> package_policy_id,
                                       status |-> status, body |-> body])
              /\ fleet_package_policies' =
                    IF status = HttpOk
                    THEN ServerUpdate(fleet_package_policies, package_policy_id, body)
                    ELSE fleet_package_policies
              /\ IF check_http_status_code(status)
                 THEN pc' = pc /\ exit_status' = exit_status
                 ELSE pc' = "crashed" /\ exit_status' = 1
    /\ idx' = idx + 1
    /\ UNCHANGED <<os_environ, gcp_projects_to_ignore, active_gcp_projects,
                   agent_gcp_projects, agent_policy_id, new_gcp_projects,
                   deleted_gcp_projects, remaining_gcp_projects, rows,
                   master_policy_revision, master_agent_policy_updated, policy_db,
                   fleet_master, reads, posts, deletes>>

\* sync_master_integration, line 179, and the end of main
StoreRevision ==
    /\ pc = "update"
    /\ idx > Len(remaining_gcp_projects)
    /\ policy_db' = update_revision(policy_db, master_policy_revision)
    /\ pc' = "done"
    /\ exit_status' = ExitOk
    /\ UNCHANGED <<os_environ, gcp_projects_to_ignore, active_gcp_projects,
                   agent_gcp_projects, agent_policy_id, master_agent_policy,
                   new_gcp_projects, deleted_gcp_projects, remaining_gcp_projects, idx,
                   rows, master_policy_revision, master_agent_policy_updated,
                   fleet_package_policies, fleet_master, reads, fetches, posts,
                   deletes, puts>>

Next ==
    \/ StartRun
    \/ EditTemplate
    \/ CheckConfiguration
    \/ GetActiveGcpProjects
    \/ InspectAgentPolicy
    \/ InspectAgentPolicyNotFound
    \/ CreateIntegrationsByGcpProjectId
    \/ DeployIntegration
    \/ GetMasterPolicyFails
    \/ DeleteIntegrationsByGcpProjectId
    \/ DeleteIntegrationPolicy
    \/ SyncMasterIntegration
    \/ UpdateIntegrationPolicy
    \/ StoreRevision

Spec == Init /\ [][Next]_vars

(* ===================== properties of the program ======================= *)
PostKeys == [i \in 1..Len(posts) |-> posts[i].key]
DeleteKeys == [i \in 1..Len(deletes) |-> deletes[i].key]
PutKeys == [i \in 1..Len(puts) |-> puts[i].key]
ActiveSet == Range(active_gcp_projects)
CurrentKeys == Range(DictKeys(agent_gcp_projects))
IgnoreSet == Range(gcp_projects_to_ignore)

\* both the create loop and the delete loop of the run are over
WritesPlanned == pc \in {"update", "done"}
RunDone == pc = "done"

FirstPos(seq, k) == CHOOSE i \in 1..Len(seq) : seq[i] = k /\ \A j \in 1..(i - 1) : seq[j] # k
\* the keys of log are first met in the order in which ref first lists them
FollowsOrder(log, ref) ==
    \A a \in Range(log) : \A b \in Range(log) :
        FirstPos(log, a) < FirstPos(log, b) => FirstPos(ref, a) < FirstPos(ref, b)
NoRepeat(seq) == \A i \in 1..Len(seq) : \A j \in 1..Len(seq) : i # j => seq[i] # seq[j]

\* the revision of the master policy as this run fetched it
TemplateRevision == master_agent_policy.revision

\* the run found a stored revision other than the template's
RevisionChanged == rows # <<>> /\ rows[1] # TemplateRevision

\* C1 (first half): with an empty ignore list the creates of a run are the
\* active projects that are no key of the current-state map, in the order of
\* the active list, and its deletes are the keys of the map that are not
\* active, once each, in the order of the map
C1_DiffExact ==
    (WritesPlanned /\ gcp_projects_to_ignore = <<>>) =>
        /\ Range(PostKeys) = ActiveSet \ CurrentKeys
        /\ FollowsOrder(PostKeys, active_gcp_projects)
        /\ Range(DeleteKeys) = CurrentKeys \ ActiveSet
        /\ NoRepeat(DeleteKeys)
        /\ FollowsOrder(DeleteKeys, DictKeys(agent_gcp_projects))

\* C1 (second half): a step of the diffing and applying leaves the active
\* list and the current-state map as they were
C1_InputsKept ==
    pc \in {"new", "create", "delete", "update"} =>
        (active_gcp_projects' = active_gcp_projects /\ agent_gcp_projects' = agent_gcp_projects)

\* C1: the creates are exactly A \ keys(C) in A's order and the deletes
\* exactly keys(C) \ A in C's order when nothing is ignored, and no step of
\* the diffing and applying changes the active list or the current-state map
C1_Diff ==
    /\ []C1_DiffExact
    /\ [][C1_InputsKept]_vars

C1_Witness ==
    /\ RunDone
    /\ gcp_projects_to_ignore = <<>>
    /\ PostKeys = <<"P2">>
    /\ DeleteKeys = <<"P1">>

\* C2: no create and no delete is issued for a project of the ignore list
C2_IgnoreAbsolute ==
    \A k \in IgnoreSet : k \notin Range(PostKeys) /\ k \notin Range(DeleteKeys)

C4_RevisionAdvances ==
    (RunDone /\ RevisionChanged) => policy_db = <<TemplateRevision>>

C4_Witness ==
    /\ RunDone
    /\ RevisionChanged
    /\ Len(puts) = 2
    /\ \A i \in 1..Len(puts) : puts[i].status # HttpOk

\* C5: the writes a run issues do not depend on the statuses returned: a
\* process stops early only on a failed read, and a finished run has issued
\* the create of every missing project, the delete of every stale one and,
\* after a revision change, the update of every remaining one
C5_FailureIsolation ==
    /\ pc = "crashed" =>
          \/ master_agent_policy.state = "none"
          \/ "agent_policy" \notin reads
    /\ RunDone =>
          /\ Range(PostKeys) = ActiveSet \ CurrentKeys
          /\ Len(posts) = Len(SelectSeq(active_gcp_projects, LAMBDA k : k \notin CurrentKeys))
          /\ Range(DeleteKeys) = (CurrentKeys \ ActiveSet) \ IgnoreSet
          /\ Range(PutKeys) = IF RevisionChanged
                              THEN (CurrentKeys \ Range(DeleteKeys)) \ IgnoreSet
                              ELSE {}

C5_Witness ==
    /\ RunDone
    /\ Len(posts) = 1 /\ posts[1].status # HttpOk
    /\ Len(deletes) = 1 /\ deletes[1].status # HttpOk
    /\ Len(puts) = 0
    /\ ~RevisionChanged

AllWritesSucceeded ==
    /\ \A i \in 1..Len(posts) : posts[i].status = HttpOk
    /\ \A i \in 1..Len(deletes) : deletes[i].status = HttpOk
    /\ \A i \in 1..Len(puts) : puts[i].status = HttpOk

\* what a run started now, with the same active list and ignore list, would
\* create and delete
NextCurrentKeys == Range(DictKeys(inspect_agent_policy(fleet_package_policies)))
NextToCreate == ActiveSet \ NextCurrentKeys
NextToDelete == (NextCurrentKeys \ ActiveSet) \ IgnoreSet

\* C6: after a finished run all of whose writes succeeded, a run over the
\* same active list finds nothing to create and nothing to delete
C6_Idempotent ==
    (RunDone /\ AllWritesSucceeded) => (NextToCreate = {} /\ NextToDelete = {})

\* C7: no body of a create or an update carries one of the server-managed
\* fields
C7_Stripped ==
    /\ \A i \in 1..Len(posts) : posts[i].body.fields \cap StripKeys = {}
    /\ \A i \in 1..Len(puts) : puts[i].body.fields \cap StripKeys = {}

C7_Witness ==
    /\ RunDone
    /\ fleet_master.fields = StripKeys
    /\ Len(posts) = 1
    /\ Len(puts) = 1

\* C8: the revision table gets its row in the revision check of a run that
\* found it empty, and the row changes afterwards only in the last step of a
\* run that made an update pass
C8_StoreStep ==
    policy_db' # policy_db =>
        IF policy_db = <<>>
        THEN pc = "delete" /\ pc' = "update" /\ rows' = <<>>
        ELSE pc = "update" /\ pc' = "done" /\ master_agent_policy_updated

C8_StoreWrites == [][C8_StoreStep]_vars

C8_Witness ==
    /\ RunDone
    /\ master_agent_policy_updated
    /\ rows # <<>>
    /\ policy_db # rows

\* C9: no project gets two creates in one run
C9_OneCreatePerKey == NoRepeat(PostKeys)

\* C10 (first half): a process that found a required variable missing has
\* exited with a nonzero status and has issued no request
C10_NoCalls ==
    (pc \notin {"idle", "check"} /\ os_environ # RequiredEnv) =>
        /\ pc = "exited"
        /\ exit_status > 0
        /\ reads = {}
        /\ fetches = 0
        /\ posts = <<>> /\ deletes = <<>> /\ puts = <<>>

\* C10: with a required variable missing the run exits nonzero before any
\* request and leaves the revision table as it was
C10_FailFast ==
    /\ []C10_NoCalls
    /\ [][pc' = "exited" => policy_db' = policy_db]_vars

C10_Witness ==
    /\ pc = "exited"
    /\ "GCP_AGENT_TAG" \notin os_environ
    /\ policy_db # <<>>

\* C11 (first half): a process whose agent query matched no agent has
\* stopped with a nonzero status without a write request and without
\* fetching the master policy
C11_Aborted ==
    ("agents" \in reads /\ "agent_policy" \notin reads) =>
        /\ pc = "crashed"
        /\ exit_status > 0
        /\ posts = <<>> /\ deletes = <<>> /\ puts = <<>>
        /\ fetches = 0

\* C11 (second half): no step of a run up to and including the inspection
\* changes the revision table
C11_StoreKept == pc \in {"check", "list", "inspect"} => policy_db' = policy_db

\* C11: when no agent matches, the run is aborted: it issues no create,
\* delete or update and leaves the stored revision unchanged
C11_NotFound ==
    /\ []C11_Aborted
    /\ [][C11_StoreKept]_vars

C11_Witness ==
    /\ pc = "crashed"
    /\ "agents" \in reads
    /\ "agent_policy" \notin reads
    /\ active_gcp_projects = <<"P1">>
    /\ policy_db # <<>>
    /\ policy_db[1] # fleet_master.revision

\* the inspection has just returned: the agent policy is as it was read
Inspected == pc = "new"

GcpAt(pps, i, k) == pps[i].pkg = GcpPackage /\ pps[i].key = k
\* the id of the first GCP package policy of project k in the policy's order
FirstGcpId(pps, k) ==
    pps[CHOOSE i \in 1..Len(pps) :
            GcpAt(pps, i, k) /\ \A j \in 1..(i - 1) : ~GcpAt(pps, j, k)].id
GcpKeys(pps) == {pps[i].key : i \in {j \in 1..Len(pps) : pps[j].pkg = GcpPackage}}
\* the same agent policy with an enabled input in every package policy
AllEnabled(pps) == [i \in 1..Len(pps) |-> [pps[i] EXCEPT !.enabled = TRUE]]

\* C12: the current-state map gives a project the id of the first GCP
\* package policy of that project in the agent policy's order
C12_FirstWins ==
    Inspected =>
        \A i \in 1..Len(agent_gcp_projects) :
            agent_gcp_projects[i].id =
                FirstGcpId(fleet_package_policies, agent_gcp_projects[i].key)

\* C13: the current-state map holds the project of every GCP package policy
\* of the agent policy and is the map the inspection builds when the same
\* package policies all have an enabled input
C13_InputsIrrelevant ==
    Inspected =>
        /\ CurrentKeys = GcpKeys(fleet_package_policies)
        /\ agent_gcp_projects = inspect_agent_policy(AllEnabled(fleet_package_policies))

\* C14: a process queries the server for the master policy at most once,
\* and the bodies it sent and the revision it compared are those of the
\* master policy it holds
C14_OneFetch ==
    /\ fetches <= 1
    /\ fetches = 1 <=> "master_policy" \in reads
    /\ (posts # <<>> \/ puts # <<>> \/ WritesPlanned) =>
          (fetches = 1 /\ master_agent_policy.state = "fetched")
    /\ \A i \in 1..Len(posts) : posts[i].body.enabled = master_agent_policy.pp.enabled
    /\ \A i \in 1..Len(puts) : puts[i].body.enabled = master_agent_policy.pp.enabled
    /\ WritesPlanned => master_policy_revision = master_agent_policy.revision

C14_Witness ==
    /\ RunDone
    /\ fetches = 1
    /\ Len(posts) = 1
    /\ Len(puts) = 1
    /\ rows # <<>>

\* C15: the create for a project carries that project and the agent policy's
\* id, and the update for a project goes to the id the current-state map
\* gives the project with a body carrying that project
C15_Substitution ==
    /\ \A i \in 1..Len(posts) :
          /\ posts[i].body.project_id = posts[i].key
          /\ posts[i].body.name = posts[i].key
          /\ posts[i].body.policy_id = AgentPolicyId
    /\ \A i \in 1..Len(puts) :
          /\ puts[i].body.project_id = puts[i].key
          /\ puts[i].body.name = puts[i].key
          /\ puts[i].body.policy_id = AgentPolicyId
          /\ \E j \in 1..Len(agent_gcp_projects) :
                /\ agent_gcp_projects[j].key = puts[i].key
                /\ agent_gcp_projects[j].id = puts[i].id

C15_Witness ==
    /\ RunDone
    /\ PostKeys = <<"P1">>
    /\ PutKeys = <<"P2">>

\* C16 (first half): a finished update pass in which an update failed has
\* stored the revision of the master policy it applied
C16_PassStored ==
    (RunDone /\ \E i \in 1..Len(puts) : puts[i].status # HttpOk) =>
        policy_db = <<TemplateRevision>>

\* C16 (second half): while the stored revision is the revision of the master
\* policy on the server, no step issues an update, and the stored revision
\* stays as it is unless the master policy is edited
C16_NoRetryStep ==
    (policy_db # <<>> /\ policy_db[1] = fleet_master.revision) =>
        /\ puts' = puts \/ puts' = <<>>
        /\ fleet_master' = fleet_master => policy_db' = policy_db

\* C16: after an update pass with a failed update no later run updates the
\* project while the master policy keeps the revision of that pass; updates
\* are issued again only once its revision differs from the stored one
C16_NoRetry ==
    /\ []C16_PassStored
    /\ [][C16_NoRetryStep]_vars

C16_Witness ==
    /\ RunDone
    /\ RevisionChanged
    /\ PutKeys = <<"P1", "P2">>
    /\ puts[1].status # HttpOk
    /\ puts[2].status = HttpOk
    /\ policy_db[1] = fleet_master.revision

\* C17: for a finished run and a next run over the same active list and
\* ignore list, a create or delete that failed is issued again, and a project
\* whose create succeeded is not created again, so that the runs come to one
\* that creates and deletes nothing once the writes succeed
C17_Converges ==
    RunDone =>
        /\ \A i \in 1..Len(posts) :
              posts[i].status # HttpOk => posts[i].key \in NextToCreate
        /\ \A i \in 1..Len(deletes) :
              deletes[i].status # HttpOk => deletes[i].key \in NextToDelete
        /\ \A i \in 1..Len(posts) :
              posts[i].status = HttpOk => posts[i].key \notin NextToCreate

\* C18 (first half): a process whose query for the master policy failed has
\* stopped with a nonzero status after that one query, without a create or
\* an update
C18_Aborted ==
    master_agent_policy.state = "none" =>
        /\ pc = "crashed"
        /\ exit_status > 0
        /\ fetches = 1
        /\ posts = <<>> /\ puts = <<>>

\* C18 (second half): only a process that holds a fetched master policy
\* changes the revision table
C18_StoreStep == policy_db' # policy_db => master_agent_policy'.state = "fetched"

\* C18: a failed fetch of the master policy aborts the run without retry:
\* no create, no update, and the stored revision stays what it was
C18_FetchFailure ==
    /\ []C18_Aborted
    /\ [][C18_StoreStep]_vars

C18_Witness ==
    /\ master_agent_policy.state = "none"
    /\ new_gcp_projects = <<"P1">>
    /\ CurrentKeys = {"P2"}
    /\ policy_db # <<>>
    /\ policy_db[1] # fleet_master.revision

\* C19: in a run over an active list without repeats no project gets two
\* write requests, be they creates, deletes or updates
C19_OneWritePerKey ==
    NoRepeat(active_gcp_projects) => NoRepeat(PostKeys \o DeleteKeys \o PutKeys)

C19_Witness ==
    /\ RunDone
    /\ active_gcp_projects = <<"P2">>
    /\ DeleteKeys = <<"P1">>
    /\ PutKeys = <<"P2">>

\* C20: the revision a run compares and stores is the revision of the master
\* policy on the server, also after creates have edited the memoized policy
C20_RevisionKept ==
    /\ WritesPlanned =>
          /\ master_policy_revision = TemplateRevision
          /\ policy_db # <<>>
    /\ pc = "update" =>
          /\ master_policy_revision = fleet_master.revision
          /\ master_agent_policy_updated = (rows # <<>> /\ rows[1] # fleet_master.revision)
    /\ RunDone => policy_db = <<master_policy_revision>>

C20_Witness ==
    /\ pc = "update"
    /\ Len(posts) = 2
    /\ fleet_master.fields = StripKeys
    /\ master_agent_policy_updated
====
